---- MODULE Spec2Model ----
(***************************************************************************)
(* A state-machine model of btcwallet's account.go: one Account per name   *)
(* (wallet reference, account mutex, UtxoStore and TxStore with their      *)
(* reader/writer locks and dirty flags), the process-wide address->account *)
(* map, and goroutines stepping through the Account methods.               *)
(*                                                                         *)
(* A goroutine's step runs from one blocking call (a lock acquisition or   *)
(* the disk flush) up to, and not including, the next one.  Everything a   *)
(* method does that is visible outside it (lock acquisitions, flushes,     *)
(* registry writes, requests to btcd, frontend notifications) is appended  *)
(* to the goroutine's trace loc[t].tr together with the locks held at      *)
(* that moment.                                                            *)
(***************************************************************************)
EXTENDS Integers, Sequences, FiniteSets, TLC

VARIABLES
    wallet,     \* a.Wallet: [chain, imported, locked, earliest, synced] per account
    dirty,      \* a.dirty per account
    fullRescan, \* a.fullRescan per account
    utxo,       \* a.UtxoStore: [s, dirty] per account
    txs,        \* a.TxStore: [s, dirty] per account
    registry,   \* addressAccountMap.m
    lk,         \* state of every sync.RWMutex
    pc,         \* position of each goroutine
    loc,        \* locals, trace and result of each goroutine's current call
    held,       \* locks each goroutine holds, in acquisition order
    acctOf,     \* the *Account each goroutine calls methods on
    provider,   \* answers GetCurBlock may give
    dom         \* the callers: who calls, and with which arguments

vars == <<wallet, dirty, fullRescan, utxo, txs, registry, lk, pc, loc, held,
          acctOf, provider, dom>>

acctVars == <<wallet, dirty, fullRescan, utxo, txs>>

\* ------------------------------------------------------------ bounds
MaxChain == 2      \* chained addresses a wallet can still hand out
MaxLedger == 2     \* records of a ledger
MaxHeight == 2     \* best-block heights 0..MaxHeight
MaxConf == 3       \* confirmations arguments 0..MaxConf
MaxHist == 5       \* records of the ledgers drawn for the history queries

\* ------------------------------------------------------------ constants
BlockHeightUnknown == -1
SatoshiPerBitcoin == 100000000
Unconfirmed == -1

Threads == {"g1", "g2"}
\* The default account is named "" (accountdir); "savings" is a named one.
Accounts == {"", "savings"}
Unmarked == "<no entry>"
Nets == {"main", "test"}
Keys == {1}

AcctIdx(a) == IF a = "" THEN 1 ELSE 2

\* ------------------------------------------------------------ addresses
Addr(h) == [kind |-> "pkh", hash |-> h]
NoAddr == [kind |-> "none", hash |-> 0]
ScriptAddress(ad) == ad.hash
EncodeAddress(ad) == 1000 + ad.hash

ChainPkh(a, i) == AcctIdx(a) * 10 + i
KeyPkh(k) == 90 + k
Pkhs == {ChainPkh(a, i) : a \in Accounts, i \in 0..MaxChain} \cup {KeyPkh(k) : k \in Keys}
EncAddrs == {1000 + h : h \in Pkhs}

\* ------------------------------------------------------------ wallet
\* a.Net()
Net(a) == "main"

LastChainedAddress(a, w) == Addr(ChainPkh(a, w.chain))

ActiveAddresses(a, w) ==
    {Addr(ChainPkh(a, i)) : i \in 0..w.chain} \cup {Addr(KeyPkh(k)) : k \in w.imported}

ActiveEncoded(a, w) == {EncodeAddress(ad) : ad \in ActiveAddresses(a, w)}

\* NextChainedAddress: the next address of the chain, or an error.
CanChain(w) == w.chain < MaxChain
NextChained(w) == [w EXCEPT !.chain = @ + 1]

\* wallet.ImportPrivateKey: a key the wallet holds already is refused.
CanImport(w, k) == k \notin w.imported
Imported(w, k) == [w EXCEPT !.imported = @ \cup {k}]

\* btcutil.DecodePrivateKey
WIFs == [key : Keys, net : Nets, compressed : {TRUE}, valid : BOOLEAN]
DecodePrivateKey(wif) ==
    [privkey |-> wif.key, net |-> wif.net, compressed |-> wif.compressed,
     err |-> IF wif.valid THEN "" ELSE "malformed private key"]

\* ------------------------------------------------------------ registry
MarkAddressForAccount(reg, address, account) == [reg EXCEPT ![address] = account]

LookupAccountByAddress(reg, address) ==
    IF reg[address] = Unmarked
    THEN [account |-> "", err |-> "not found"]
    ELSE [account |-> reg[address], err |-> ""]

\* ------------------------------------------------------------ ledgers
RecvRec(id, h, amt, height, blk) ==
    [type |-> "recv", txid |-> id, hash |-> h, amt |-> amt, height |-> height, blk |-> blk]
SendRec(id, outs, height, blk) ==
    [type |-> "send", txid |-> id, outs |-> outs, height |-> height, blk |-> blk]
Utxo(id, h, amt, height, blk) ==
    [out |-> id, hash |-> h, amt |-> amt, height |-> height, blk |-> blk]

RECURSIVE AddressUsedFrom(_, _, _)
AddressUsedFrom(s, pkHash, i) ==
    IF i > Len(s) THEN FALSE
    ELSE IF s[i].type # "recv" THEN AddressUsedFrom(s, pkHash, i + 1)
    ELSE IF s[i].hash = pkHash THEN TRUE
    ELSE AddressUsedFrom(s, pkHash, i + 1)

AddressUsedByLastRecord(s, addr) ==
    Len(s) > 0 /\ s[Len(s)].type = "recv" /\ s[Len(s)].hash = ScriptAddress(addr)

AddressUsed(s, addr) == AddressUsedFrom(s, ScriptAddress(addr), 1)

\* The confirmation filter of both balance queries.  bs.Height and u.Height
\* are int32 and bal is uint64 in the source; the heights and amounts of the
\* model stay far inside both ranges.
CountedWithoutOwnBlock(u, H, confirms) ==
    confirms = 0 \/ (u.height # -1 /\ H - u.height >= confirms)

Counted(u, H, confirms) ==
    confirms = 0 \/ (u.height # -1 /\ H - u.height + 1 >= confirms)

RECURSIVE BalanceLoop(_, _, _, _, _)
BalanceLoop(s, i, H, confirms, bal) ==
    IF i > Len(s) THEN bal
    ELSE BalanceLoop(s, i + 1, H, confirms,
                     IF Counted(s[i], H, confirms) THEN bal + s[i].amt ELSE bal)

RECURSIVE AddressBalanceLoop(_, _, _, _, _, _)
AddressBalanceLoop(s, i, addr, H, confirms, bal) ==
    IF i > Len(s) THEN bal
    ELSE AddressBalanceLoop(s, i + 1, addr, H, confirms,
                            IF Counted(s[i], H, confirms) /\ ScriptAddress(addr) = s[i].hash
                            THEN bal + s[i].amt ELSE bal)

\* float64(bal) / float64(btcutil.SatoshiPerBitcoin), kept as a fraction.
Coins(bal) == [sat |-> bal, per |-> SatoshiPerBitcoin]

\* The early return of both balance queries.
NoBlockOnErrorOnly(bs) == bs.err

NoBlock(bs) == bs.height = BlockHeightUnknown \/ bs.err

\* tx.UtxoStore.Rollback / tx.TxStore.Rollback: an entry stays when it lies
\* below the rollback point or in the block (height, hash) that ends the
\* still-valid prefix; the result tells whether anything was removed.
Survives(e, height, hash) ==
    e.height < height \/ (e.height = height /\ e.blk = hash)

StoreRollback(s, height, hash) ==
    LET kept == SelectSeq(s, LAMBDA e : Survives(e, height, hash))
    IN  [s |-> kept, modified |-> Len(kept) # Len(s)]

\* RecvTx.TxInfo / SendTx.TxInfo: one row for a receive, one per output for
\* a send.
Confirmations(rec, H) == IF rec.height = -1 THEN 0 ELSE H - rec.height + 1

TxInfo(rec, name, H, net) ==
    IF rec.type = "recv"
    THEN <<[account |-> name, category |-> "receive", txid |-> rec.txid, vout |-> 0,
            confirmations |-> Confirmations(rec, H)]>>
    ELSE [j \in 1..rec.outs |->
            [account |-> name, category |-> "send", txid |-> rec.txid, vout |-> j - 1,
             confirmations |-> Confirmations(rec, H)]]

\* The loop of ListTransactions; i is the Go (0-based) index.
RECURSIVE ListLoop(_, _, _, _, _, _, _, _)
ListLoop(s, i, from, lastLookupIdx, name, H, net, rows) ==
    IF ~(i >= from /\ i >= lastLookupIdx) THEN rows
    ELSE ListLoop(s, i - 1, from, lastLookupIdx, name, H, net,
                  rows \o TxInfo(s[i + 1], name, H, net))

ListTransactionsRows(s, from, count, name, H, net) ==
    ListLoop(s, Len(s) - 1, from, Len(s) - count, name, H, net, <<>>)

\* The loop of ListAllTransactions.
ListAllTransactionsRows(s, name, H, net) ==
    ListLoop(s, Len(s) - 1, 0, 0, name, H, net, <<>>)

\* The loop of ListAddressTransactions: forward, receives only.
RECURSIVE AddressListLoop(_, _, _, _, _, _, _)
AddressListLoop(s, i, pkHashes, name, H, net, rows) ==
    IF i > Len(s) THEN rows
    ELSE IF s[i].type # "recv" THEN AddressListLoop(s, i + 1, pkHashes, name, H, net, rows)
    ELSE AddressListLoop(s, i + 1, pkHashes, name, H, net,
                         IF s[i].hash \in pkHashes
                         THEN rows \o TxInfo(s[i], name, H, net) ELSE rows)

ListAddressTransactionsRows(s, pkHashes, name, H, net) ==
    AddressListLoop(s, 1, pkHashes, name, H, net, <<>>)

\* ------------------------------------------------------------ locks
\* A sync.RWMutex: its writer, each goroutine's read holds, and the
\* goroutines blocked in Lock().  A blocked writer keeps new readers out.
LockKinds == {"acct", "utxo", "tx"}
LockIds == Accounts \X LockKinds
FreeLock == [w |-> "none", r |-> [t \in Threads |-> 0], p |-> {}]

NoReaders(l) == \A u \in Threads : lk[l].r[u] = 0
CanRLock(l) == lk[l].w = "none" /\ lk[l].p = {}
CanLock(l) == lk[l].w = "none" /\ NoReaders(l)

CallLock(L, l, t) == [L EXCEPT ![l].p = @ \cup {t}]
Granted(L, l, t) == [L EXCEPT ![l].p = @ \ {t}]
RLocked(L, l, t) == [L EXCEPT ![l].r[t] = @ + 1]
RUnlocked(L, l, t) == [L EXCEPT ![l].r[t] = @ - 1]

\* ------------------------------------------------------------ traces
Acq(kind, mode, h) == [ev |-> "acquire", lock |-> kind, mode |-> mode, held |-> h]
FlushEv(ok, h) == [ev |-> "flush", ok |-> ok, held |-> h]
MarkEv(address, account, h) ==
    [ev |-> "mark", address |-> address, account |-> account, held |-> h]
NotifyTxEv(addrs, reg, h) ==
    [ev |-> "notifynewtxs", addrs |-> addrs,
     unregistered |-> {x \in addrs : reg[x] = Unmarked}, held |-> h]
RescanEv(from, addrs, reg, h) ==
    [ev |-> "rescan", from |-> from, addrs |-> addrs,
     unregistered |-> {x \in addrs : reg[x] = Unmarked}, held |-> h]
SpentEv(outs, h) == [ev |-> "notifyspent", outs |-> outs, held |-> h]
RolledEv(store, before, after) ==
    [ev |-> "rolled", store |-> store, before |-> before, after |-> after]
LockStateEv(name, locked, h) ==
    [ev |-> "lockstate", account |-> name, locked |-> locked, held |-> h]

NoStamp == [height |-> 0, err |-> FALSE]
NewCall(op, args) ==
    [op |-> op, args |-> args, bs |-> NoStamp, last |-> NoAddr, used |-> FALSE,
     addr |-> NoAddr, tr |-> <<>>, acc |-> {}, err |-> "", val |-> 0]

A(t) == acctOf[t]
Returned(t) == pc[t] = "idle" /\ loc[t].op # "none"
WithTr(l, evs) == [l EXCEPT !.tr = @ \o evs]
Ret(l, err, val) == [l EXCEPT !.err = err, !.val = val]

\* What a call reads and writes of the wallet and of a.dirty, each with the
\* mode in which the goroutine holds a.mtx at that point ("none", "r", "w").
Reads(what, mode) == [access |-> "read", what |-> what, mtx |-> mode]
Writes(what, mode) == [access |-> "write", what |-> what, mtx |-> mode]
Accessed(l, S) == [l EXCEPT !.acc = @ \cup S]

\* A call starts: every goroutine makes one call.
Starts(t) ==
    /\ pc[t] = "idle"
    /\ t \in dom.active
    /\ dom.sequential => \A u \in Threads : pc[u] = "idle"
    /\ loc[t].op = "none"

\* A call goes on from the place it had reached.
At(t, label) == pc[t] = label

Goto(t, label) == pc' = [pc EXCEPT ![t] = label]
SetLoc(t, l) == loc' = [loc EXCEPT ![t] = l]
Fixed == UNCHANGED <<acctOf, provider, dom, fullRescan>>

\* writeDirtyToDisk: takes the account mutex for writing (the TODO in
\* ImportWIFPrivateKey), writes what is dirty and clears the flags; on a
\* failure the flags stay.
FlushPlaces == {"rb_flush", "na_flush", "imp_flush", "imp_flush2", "rs_flush"}

\* The call of a.writeDirtyToDisk(): the goroutine calls a.mtx.Lock() and is
\* a waiting writer, keeping new readers out, until the lock is granted.
CallWriteDirtyToDisk(t) ==
    /\ pc[t] \in FlushPlaces
    /\ t \notin lk[<<A(t), "acct">>].p
    /\ lk' = CallLock(lk, <<A(t), "acct">>, t)
    /\ UNCHANGED <<acctVars, registry, pc, loc, held>> /\ Fixed

WriteDirtyToDisk(t, ok) ==
    /\ t \in lk[<<A(t), "acct">>].p
    /\ CanLock(<<A(t), "acct">>)
    /\ lk' = Granted(lk, <<A(t), "acct">>, t)
    /\ IF ok
       THEN /\ dirty' = [dirty EXCEPT ![A(t)] = FALSE]
            /\ utxo' = [utxo EXCEPT ![A(t)].dirty = FALSE]
            /\ txs' = [txs EXCEPT ![A(t)].dirty = FALSE]
       ELSE UNCHANGED <<dirty, utxo, txs>>

FlushTr(t, ok) == <<Acq("acct", "w", held[t]), FlushEv(ok, held[t])>>
Flushed(l, t, ok) ==
    Accessed(WithTr(l, FlushTr(t, ok)), {Reads("dirty", "w")} \cup
                                        (IF ok THEN {Writes("dirty", "w")} ELSE {}))

\* ------------------------------------------------------------ Lock / Unlock
LockCall(t) ==
    /\ Starts(t)
    /\ Goto(t, "lock_w")
    /\ SetLoc(t, NewCall("Lock", [none |-> 0]))
    /\ lk' = CallLock(lk, <<A(t), "acct">>, t)
    /\ UNCHANGED <<acctVars, registry, held>> /\ Fixed

\* Wallet.Lock fails on a wallet that is locked already.
LockBody(t) ==
    /\ At(t, "lock_w")
    /\ CanLock(<<A(t), "acct">>)
    /\ lk' = Granted(lk, <<A(t), "acct">>, t)
    /\ Goto(t, "idle")
    /\ LET h == Append(held[t], "acct")
           pre == <<Acq("acct", "w", held[t]), [ev |-> "wallet.Lock", held |-> h]>>
       IN  \/ /\ wallet[A(t)].locked
              /\ SetLoc(t, Ret(Accessed(WithTr(loc[t], pre), {Writes("lockstate", "w")}),
                               "wallet is locked", 0))
              /\ UNCHANGED wallet
           \/ /\ ~wallet[A(t)].locked
              /\ wallet' = [wallet EXCEPT ![A(t)].locked = TRUE]
              /\ SetLoc(t, Accessed(WithTr(loc[t], pre \o <<LockStateEv(A(t), TRUE, h)>>),
                                    {Writes("lockstate", "w")}))
    /\ UNCHANGED <<dirty, utxo, txs, registry, held>> /\ Fixed

UnlockCall(t) ==
    /\ Starts(t)
    /\ \E good \in BOOLEAN :
         SetLoc(t, NewCall("Unlock", [passphrase |-> good]))
    /\ Goto(t, "unlock_w")
    /\ lk' = CallLock(lk, <<A(t), "acct">>, t)
    /\ UNCHANGED <<acctVars, registry, held>> /\ Fixed

\* Wallet.Unlock succeeds with the right passphrase; Unlock calls it once
\* for the notification and once more for the value it returns.
UnlockBody(t) ==
    /\ At(t, "unlock_w")
    /\ CanLock(<<A(t), "acct">>)
    /\ lk' = Granted(lk, <<A(t), "acct">>, t)
    /\ Goto(t, "idle")
    /\ LET h == Append(held[t], "acct")
           call == [ev |-> "wallet.Unlock", held |-> h]
           pre == <<Acq("acct", "w", held[t]), call>>
       IN  \/ /\ loc[t].args.passphrase
              /\ wallet' = [wallet EXCEPT ![A(t)].locked = FALSE]
              /\ SetLoc(t, Accessed(WithTr(loc[t], pre \o <<LockStateEv(A(t), FALSE, h), call>>),
                                    {Writes("lockstate", "w")}))
           \/ /\ ~loc[t].args.passphrase
              /\ SetLoc(t, Ret(Accessed(WithTr(loc[t], pre \o <<call>>),
                                        {Writes("lockstate", "w")}),
                               "wrong passphrase", 0))
              /\ UNCHANGED wallet
    /\ UNCHANGED <<dirty, utxo, txs, registry, held>> /\ Fixed

\* ------------------------------------------------------------ Rollback
RollbackLedgerFlagOverwritten(ledger, height, hash) ==
    LET r == StoreRollback(ledger.s, height, hash)
    IN  [s |-> r.s, dirty |-> r.modified]

\* a.UtxoStore.dirty = a.UtxoStore.dirty || a.UtxoStore.s.Rollback(height, hash)
\* and the same for a.TxStore: Go evaluates the right operand of || only when
\* the left one is false, so the store of a dirty ledger is not rolled back.
RollbackLedger(ledger, height, hash) ==
    IF ledger.dirty
    THEN ledger
    ELSE LET r == StoreRollback(ledger.s, height, hash)
         IN  [s |-> r.s, dirty |-> r.modified]

RollbackCall(t) ==
    /\ Starts(t)
    /\ \E h \in dom.heights, hash \in dom.hashes :
         SetLoc(t, NewCall("Rollback", [height |-> h, hash |-> hash]))
    /\ Goto(t, "rb_utxo")
    /\ lk' = CallLock(lk, <<A(t), "utxo">>, t)
    /\ UNCHANGED <<acctVars, registry, held>> /\ Fixed

RollbackUtxo(t) ==
    /\ At(t, "rb_utxo")
    /\ CanLock(<<A(t), "utxo">>)
    /\ utxo' = [utxo EXCEPT ![A(t)] =
                 RollbackLedger(@, loc[t].args.height, loc[t].args.hash)]
    /\ lk' = Granted(lk, <<A(t), "utxo">>, t)
    /\ SetLoc(t, WithTr(loc[t], <<Acq("utxo", "w", held[t]),
                                  RolledEv("utxo", utxo[A(t)], utxo'[A(t)])>>))
    /\ Goto(t, "rb_tx")
    /\ UNCHANGED <<wallet, dirty, txs, registry, held>> /\ Fixed

\* a.TxStore.Lock() is called: the goroutine waits for the TxStore mutex.
RollbackTxCall(t) ==
    /\ At(t, "rb_tx")
    /\ t \notin lk[<<A(t), "tx">>].p
    /\ lk' = CallLock(lk, <<A(t), "tx">>, t)
    /\ UNCHANGED <<acctVars, registry, pc, loc, held>> /\ Fixed

RollbackTx(t) ==
    /\ At(t, "rb_tx")
    /\ t \in lk[<<A(t), "tx">>].p
    /\ CanLock(<<A(t), "tx">>)
    /\ txs' = [txs EXCEPT ![A(t)] =
                RollbackLedger(@, loc[t].args.height, loc[t].args.hash)]
    /\ lk' = Granted(lk, <<A(t), "tx">>, t)
    /\ SetLoc(t, WithTr(loc[t], <<Acq("tx", "w", held[t]),
                                  RolledEv("tx", txs[A(t)], txs'[A(t)])>>))
    /\ Goto(t, "rb_flush")
    /\ UNCHANGED <<wallet, dirty, utxo, registry, held>> /\ Fixed

RollbackFlush(t) ==
    /\ At(t, "rb_flush")
    /\ \E ok \in BOOLEAN :
         /\ WriteDirtyToDisk(t, ok)
         /\ SetLoc(t, Flushed(loc[t], t, ok))
    /\ Goto(t, "idle")
    /\ UNCHANGED <<wallet, registry, held>> /\ Fixed

\* ------------------------------------------------------------ balances
CalculateBalance(t) ==
    /\ Starts(t)
    /\ \E confirms \in dom.confirms, bs \in provider :
         LET l == [NewCall("CalculateBalance", [confirms |-> confirms]) EXCEPT !.bs = bs]
         IN  \/ /\ NoBlock(bs)
                /\ SetLoc(t, Ret(l, "", Coins(0)))
                /\ Goto(t, "idle")
             \/ /\ ~NoBlock(bs)
                /\ SetLoc(t, l)
                /\ Goto(t, "cb_r")
    /\ UNCHANGED <<acctVars, registry, lk, held>> /\ Fixed

CalculateBalanceSum(t) ==
    /\ At(t, "cb_r")
    /\ CanRLock(<<A(t), "utxo">>)
    /\ SetLoc(t, Ret(WithTr(loc[t], <<Acq("utxo", "r", held[t])>>), "",
                     Coins(BalanceLoop(utxo[A(t)].s, 1, loc[t].bs.height,
                                       loc[t].args.confirms, 0))))
    /\ Goto(t, "idle")
    /\ UNCHANGED <<acctVars, registry, lk, held>> /\ Fixed

CalculateAddressBalance(t) ==
    /\ Starts(t)
    /\ \E confirms \in dom.confirms, bs \in provider, h \in dom.pkhs :
         LET l == [NewCall("CalculateAddressBalance",
                           [confirms |-> confirms, addr |-> Addr(h)]) EXCEPT !.bs = bs]
         IN  \/ /\ NoBlock(bs)
                /\ SetLoc(t, Ret(l, "", Coins(0)))
                /\ Goto(t, "idle")
             \/ /\ ~NoBlock(bs)
                /\ SetLoc(t, l)
                /\ Goto(t, "cab_r")
    /\ UNCHANGED <<acctVars, registry, lk, held>> /\ Fixed

CalculateAddressBalanceSum(t) ==
    /\ At(t, "cab_r")
    /\ CanRLock(<<A(t), "utxo">>)
    /\ SetLoc(t, Ret(WithTr(loc[t], <<Acq("utxo", "r", held[t])>>), "",
                     Coins(AddressBalanceLoop(utxo[A(t)].s, 1, loc[t].args.addr,
                                              loc[t].bs.height, loc[t].args.confirms, 0))))
    /\ Goto(t, "idle")
    /\ UNCHANGED <<acctVars, registry, lk, held>> /\ Fixed

\* ------------------------------------------------------------ addresses
\* a.Name()
Name(a) == a

MtxStillHeld(h) == Append(h, "acct")

\* a.mtx.Unlock() of NewAddress (line 555) and of ImportWIFPrivateKey (line
\* 430): the locks the goroutine holds from there on, when it flushes and
\* calls MarkAddressForAccount.
AfterMtxUnlock(h) == h

NewAddressCall(t) ==
    /\ Starts(t)
    /\ SetLoc(t, NewCall("NewAddress", [none |-> 0]))
    /\ Goto(t, "na_w")
    /\ lk' = CallLock(lk, <<A(t), "acct">>, t)
    /\ UNCHANGED <<acctVars, registry, held>> /\ Fixed

\* NewAddress under a.mtx: GetCurBlock, NextChainedAddress, a.dirty = true.
NewAddressBody(t) ==
    /\ At(t, "na_w")
    /\ CanLock(<<A(t), "acct">>)
    /\ LET l == WithTr(loc[t], <<Acq("acct", "w", held[t])>>)
       IN  \E bs \in provider :
             \/ /\ bs.err
                /\ SetLoc(t, Ret([l EXCEPT !.bs = bs], "GetCurBlock failed", NoAddr))
                /\ Goto(t, "idle")
                /\ lk' = Granted(lk, <<A(t), "acct">>, t)
                /\ UNCHANGED <<wallet, dirty>>
             \/ /\ ~bs.err
                /\ ~CanChain(wallet[A(t)])
                /\ SetLoc(t, Ret(Accessed([l EXCEPT !.bs = bs], {Writes("chain", "w")}),
                                 "no next chained address", NoAddr))
                /\ Goto(t, "idle")
                /\ lk' = Granted(lk, <<A(t), "acct">>, t)
                /\ UNCHANGED <<wallet, dirty>>
             \/ /\ ~bs.err
                /\ CanChain(wallet[A(t)])
                /\ wallet' = [wallet EXCEPT ![A(t)] = NextChained(@)]
                /\ dirty' = [dirty EXCEPT ![A(t)] = TRUE]
                /\ SetLoc(t, Accessed([l EXCEPT !.bs = bs,
                                                !.addr = LastChainedAddress(A(t), wallet'[A(t)])],
                                       {Writes("chain", "w"), Writes("dirty", "w")}))
                /\ Goto(t, "na_flush")
                /\ lk' = Granted(lk, <<A(t), "acct">>, t)
    /\ UNCHANGED <<utxo, txs, registry, held>> /\ Fixed

\* The flush failure is logged and NewAddress goes on.
NewAddressFlush(t) ==
    /\ At(t, "na_flush")
    /\ \E ok \in BOOLEAN :
         /\ WriteDirtyToDisk(t, ok)
         /\ SetLoc(t, Flushed(loc[t], t, ok))
    /\ Goto(t, "na_mark")
    /\ UNCHANGED <<wallet, registry, held>> /\ Fixed

\* ReqNewTxsForAddress: only P2PKH addresses are requested.
ReqNewTxsForAddress(addr, reg, h) ==
    IF addr.kind = "pkh" THEN <<NotifyTxEv({EncodeAddress(addr)}, reg, h)>> ELSE <<>>

\* MarkAddressForAccount, ReqNewTxsForAddress, return addr.
NewAddressMark(t) ==
    /\ At(t, "na_mark")
    /\ registry' = MarkAddressForAccount(registry, EncodeAddress(loc[t].addr), Name(A(t)))
    /\ SetLoc(t, Ret(WithTr(loc[t],
                            <<Acq("reg", "w", AfterMtxUnlock(held[t])),
                              MarkEv(EncodeAddress(loc[t].addr), Name(A(t)), held[t])>>
                            \o ReqNewTxsForAddress(loc[t].addr, registry', held[t])),
                     "", loc[t].addr))
    /\ Goto(t, "idle")
    /\ UNCHANGED <<acctVars, lk, held>> /\ Fixed

\* CurrentAddress: LastChainedAddress under the read lock.
CurrentAddressLast(t) ==
    /\ Starts(t)
    /\ CanRLock(<<A(t), "acct">>)
    /\ SetLoc(t, Accessed([WithTr(NewCall("CurrentAddress", [none |-> 0]),
                                  <<Acq("acct", "r", held[t])>>)
                           EXCEPT !.last = LastChainedAddress(A(t), wallet[A(t)])],
                          {Reads("last", "r")}))
    /\ Goto(t, "ca_used")
    /\ UNCHANGED <<acctVars, registry, lk, held>> /\ Fixed

\* CurrentAddress: AddressUsed(addr) under the TxStore read lock, released
\* on its return; then either on to the call of NewAddress or the return of
\* addr.
CurrentAddressUsed(t) ==
    /\ At(t, "ca_used")
    /\ CanRLock(<<A(t), "tx">>)
    /\ LET used == AddressUsed(txs[A(t)].s, loc[t].last)
           l == [WithTr(loc[t], <<Acq("tx", "r", held[t])>>) EXCEPT !.used = used]
       IN  \/ /\ used
              /\ SetLoc(t, l)
              /\ Goto(t, "ca_new")
           \/ /\ ~used
              /\ SetLoc(t, Ret(l, "", loc[t].last))
              /\ Goto(t, "idle")
    /\ UNCHANGED <<acctVars, registry, lk, held>> /\ Fixed

\* CurrentAddress: return a.NewAddress(), which calls a.mtx.Lock(); the
\* goroutine holds nothing and waits for the account mutex.
CurrentAddressNewAddress(t) ==
    /\ At(t, "ca_new")
    /\ lk' = CallLock(lk, <<A(t), "acct">>, t)
    /\ Goto(t, "na_w")
    /\ UNCHANGED <<acctVars, registry, loc, held>> /\ Fixed

\* ------------------------------------------------------------ history
ListLocksTxFirst == <<"tx", "acct">>

\* a.mtx.RLock() and then a.TxStore.RLock().
ListLocks == <<"acct", "tx">>

\* GetCurBlock, then the first of the two read locks.
ListEnter(t, call) ==
    /\ Starts(t)
    /\ \E bs \in provider :
         \/ /\ bs.err
            /\ SetLoc(t, Ret([call EXCEPT !.bs = bs], "GetCurBlock failed", <<>>))
            /\ Goto(t, "idle")
            /\ UNCHANGED <<lk, held>>
         \/ /\ ~bs.err
            /\ CanRLock(<<A(t), ListLocks[1]>>)
            /\ lk' = RLocked(lk, <<A(t), ListLocks[1]>>, t)
            /\ held' = [held EXCEPT ![t] = Append(@, ListLocks[1])]
            /\ SetLoc(t, WithTr([call EXCEPT !.bs = bs], <<Acq(ListLocks[1], "r", held[t])>>))
            /\ Goto(t, "list_2")
    /\ UNCHANGED <<acctVars, registry>> /\ Fixed

ListTransactions(t) ==
    \E from \in dom.from, count \in dom.count :
        ListEnter(t, NewCall("ListTransactions", [from |-> from, count |-> count]))

ListAddressTransactions(t) ==
    \E pkHashes \in dom.pkhsets :
        ListEnter(t, NewCall("ListAddressTransactions", [pkHashes |-> pkHashes]))

ListAllTransactions(t) ==
    ListEnter(t, NewCall("ListAllTransactions", [none |-> 0]))

ListRows(l, s, name, net) ==
    CASE l.op = "ListTransactions" ->
           ListTransactionsRows(s, l.args.from, l.args.count, name, l.bs.height, net)
      [] l.op = "ListAddressTransactions" ->
           ListAddressTransactionsRows(s, l.args.pkHashes, name, l.bs.height, net)
      [] OTHER -> ListAllTransactionsRows(s, name, l.bs.height, net)

\* The second read lock, the loop, and both unlocks.
ListBody(t) ==
    /\ At(t, "list_2")
    /\ CanRLock(<<A(t), ListLocks[2]>>)
    /\ LET rows == ListRows(loc[t], txs[A(t)].s, Name(A(t)), Net(A(t)))
       IN  SetLoc(t, Ret(Accessed(WithTr(loc[t], <<Acq(ListLocks[2], "r", held[t])>>),
                                  IF rows = <<>> THEN {} ELSE {Reads("net", "r")}),
                         "", rows))
    /\ lk' = RUnlocked(lk, <<A(t), ListLocks[1]>>, t)
    /\ held' = [held EXCEPT ![t] = <<>>]
    /\ Goto(t, "idle")
    /\ UNCHANGED <<acctVars, registry>> /\ Fixed

\* ------------------------------------------------------------ key dumps
\* AddressKey fails on a locked wallet and for an address the wallet lacks.
DumpPrivKeys(t) ==
    /\ Starts(t)
    /\ CanRLock(<<A(t), "acct">>)
    /\ LET l == Accessed(WithTr(NewCall("DumpPrivKeys", [none |-> 0]),
                                <<Acq("acct", "r", held[t])>>),
                         {Reads("addresses", "r"), Reads("keys", "r")})
       IN  SetLoc(t, IF wallet[A(t)].locked
                     THEN Ret(l, "wallet is locked", {})
                     ELSE Ret(l, "", {<<"wif", ScriptAddress(ad), Net(A(t))>> :
                                         ad \in ActiveAddresses(A(t), wallet[A(t)])}))
    /\ Goto(t, "idle")
    /\ UNCHANGED <<acctVars, registry, lk, held>> /\ Fixed

DumpWIFPrivateKey(t) ==
    /\ Starts(t)
    /\ CanRLock(<<A(t), "acct">>)
    /\ \E h \in dom.pkhs :
         LET l == Accessed(WithTr(NewCall("DumpWIFPrivateKey", [addr |-> Addr(h)]),
                                  <<Acq("acct", "r", held[t])>>),
                           {Reads("keys", "r")})
         IN  SetLoc(t, IF wallet[A(t)].locked THEN Ret(l, "wallet is locked", 0)
                       ELSE IF Addr(h) \notin ActiveAddresses(A(t), wallet[A(t)])
                       THEN Ret(l, "address not found", 0)
                       ELSE Ret(l, "", <<"wif", h, Net(A(t))>>))
    /\ Goto(t, "idle")
    /\ UNCHANGED <<acctVars, registry, lk, held>> /\ Fixed

\* ------------------------------------------------------------ import
\* The network check of ImportWIFPrivateKey.
WrongNetworkNeverSeen(net, a) == FALSE

WrongNetwork(net, a) == net # Net(a)

\* ImportPrivKey -> ImportWIFPrivateKey: decode and network check, then the
\* call of a.mtx.Lock().
ImportPrivKey(t) ==
    /\ Starts(t)
    /\ \E wif \in dom.wifs, rescan \in dom.rescan :
         LET l == NewCall("ImportPrivKey", [wif |-> wif, rescan |-> rescan])
             d == DecodePrivateKey(wif)
         IN  \/ /\ d.err # ""
                /\ SetLoc(t, Ret(l, d.err, 0))
                /\ Goto(t, "idle")
                /\ UNCHANGED lk
             \/ /\ d.err = ""
                /\ WrongNetwork(d.net, A(t))
                /\ SetLoc(t, Ret(Accessed(l, {Reads("net", "none")}), "wrong network", 0))
                /\ Goto(t, "idle")
                /\ UNCHANGED lk
             \/ /\ d.err = ""
                /\ ~WrongNetwork(d.net, A(t))
                /\ SetLoc(t, Accessed(l, {Reads("net", "none")}))
                /\ Goto(t, "imp_w")
                /\ lk' = CallLock(lk, <<A(t), "acct">>, t)
    /\ UNCHANGED <<acctVars, registry, held>> /\ Fixed

\* Under a.mtx: Wallet.ImportPrivateKey, a.dirty = true.
ImportBody(t) ==
    /\ At(t, "imp_w")
    /\ CanLock(<<A(t), "acct">>)
    /\ LET l == Accessed(WithTr(loc[t], <<Acq("acct", "w", held[t])>>),
                         {Writes("keys", "w")})
           k == DecodePrivateKey(loc[t].args.wif).privkey
       IN  \/ /\ ~CanImport(wallet[A(t)], k)
              /\ SetLoc(t, Ret(l, "duplicate key", 0))
              /\ Goto(t, "idle")
              /\ lk' = Granted(lk, <<A(t), "acct">>, t)
              /\ UNCHANGED <<wallet, dirty>>
           \/ /\ CanImport(wallet[A(t)], k)
              /\ wallet' = [wallet EXCEPT ![A(t)] = Imported(@, k)]
              /\ dirty' = [dirty EXCEPT ![A(t)] = TRUE]
              /\ SetLoc(t, Accessed([l EXCEPT !.addr = Addr(KeyPkh(k))],
                                     {Writes("dirty", "w")}))
              /\ Goto(t, "imp_flush")
              /\ lk' = Granted(lk, <<A(t), "acct">>, t)
    /\ UNCHANGED <<utxo, txs, registry, held>> /\ Fixed

\* A failed flush makes ImportWIFPrivateKey return "import failed".
ImportFlush(t) ==
    /\ At(t, "imp_flush")
    /\ \E ok \in BOOLEAN :
         /\ WriteDirtyToDisk(t, ok)
         /\ \/ /\ ok
               /\ SetLoc(t, Flushed(loc[t], t, ok))
               /\ Goto(t, "imp_mark")
            \/ /\ ~ok
               /\ SetLoc(t, Ret(Flushed(loc[t], t, ok),
                                "import failed: cannot write wallet", 0))
               /\ Goto(t, "idle")
    /\ UNCHANGED <<wallet, registry, held>> /\ Fixed

ImportRescanFromNextBlock(bs) == bs.height + 1

\* Rescan(CurrentRPCConn(), bs.Height, addrs) of ImportPrivKey, bs being the
\* zero BlockStamp the key was imported with.
ImportRescanFrom(bs) == bs.height

\* MarkAddressForAccount; back in ImportPrivKey, the rescan from bs.Height
\* of the zero BlockStamp when one was asked for.
ImportMark(t) ==
    /\ At(t, "imp_mark")
    /\ registry' = MarkAddressForAccount(registry, EncodeAddress(loc[t].addr), Name(A(t)))
    /\ LET l == WithTr(loc[t], <<Acq("reg", "w", AfterMtxUnlock(held[t])),
                                 MarkEv(EncodeAddress(loc[t].addr), Name(A(t)), held[t])>>)
       IN  \/ /\ loc[t].args.rescan
              /\ SetLoc(t, WithTr(l, <<RescanEv(ImportRescanFrom(NoStamp),
                                                {EncodeAddress(loc[t].addr)},
                                                registry', held[t])>>))
              /\ Goto(t, "imp_flush2")
           \/ /\ ~loc[t].args.rescan
              /\ SetLoc(t, l)
              /\ Goto(t, "idle")
    /\ UNCHANGED <<acctVars, lk, held>> /\ Fixed

ImportRescanFlush(t) ==
    /\ At(t, "imp_flush2")
    /\ \E ok \in BOOLEAN :
         /\ WriteDirtyToDisk(t, ok)
         /\ SetLoc(t, Flushed(loc[t], t, ok))
    /\ Goto(t, "idle")
    /\ UNCHANGED <<wallet, registry, held>> /\ Fixed

\* ------------------------------------------------------------ tracking
\* Track: a.ActiveAddresses() with no lock, then NotifyNewTXs.
Track(t) ==
    /\ Starts(t)
    /\ SetLoc(t, Accessed(WithTr(NewCall("Track", [none |-> 0]),
                                 <<NotifyTxEv(ActiveEncoded(A(t), wallet[A(t)]),
                                              registry, held[t])>>),
                          {Reads("addresses", "none")}))
    /\ Goto(t, "trk_r")
    /\ UNCHANGED <<acctVars, registry, lk, held>> /\ Fixed

\* Track: ReqSpentUtxoNtfn for every utxo, under the UtxoStore read lock.
TrackSpent(t) ==
    /\ At(t, "trk_r")
    /\ CanRLock(<<A(t), "utxo">>)
    /\ SetLoc(t, WithTr(loc[t],
                        <<Acq("utxo", "r", held[t])>> \o
                        [i \in 1..Len(utxo[A(t)].s) |->
                            SpentEv(utxo[A(t)].s[i].out, Append(held[t], "utxo"))]))
    /\ Goto(t, "idle")
    /\ UNCHANGED <<acctVars, registry, lk, held>> /\ Fixed

BeginBlockAtSynced(full, w) == IF full THEN w.earliest ELSE w.synced

\* beginBlock: a.EarliestBlockHeight() for a full rescan, else one past the
\* height of a.SyncedWith().
BeginBlock(full, w) == IF full THEN w.earliest ELSE w.synced + 1

\* RescanActiveAddresses: a.mtx.RLock() and the begin block.
RescanBegin(t) ==
    /\ Starts(t)
    /\ CanRLock(<<A(t), "acct">>)
    /\ lk' = RLocked(lk, <<A(t), "acct">>, t)
    /\ held' = [held EXCEPT ![t] = Append(@, "acct")]
    /\ SetLoc(t, Ret(Accessed(WithTr(NewCall("RescanActiveAddresses", [none |-> 0]),
                                     <<Acq("acct", "r", held[t])>>),
                              {IF fullRescan[A(t)] THEN Reads("earliest", "r")
                               ELSE Reads("synced", "r")}),
                     "",
                     BeginBlock(fullRescan[A(t)], wallet[A(t)])))
    /\ Goto(t, "rs_r2")
    /\ UNCHANGED <<acctVars, registry>> /\ Fixed

\* RescanActiveAddresses: ActivePaymentAddresses() takes the read lock
\* again; Rescan is sent under the outer read lock, which is then released.
RescanSend(t) ==
    /\ At(t, "rs_r2")
    /\ CanRLock(<<A(t), "acct">>)
    /\ SetLoc(t, Accessed(WithTr(loc[t],
                                 <<Acq("acct", "r", held[t]),
                                   RescanEv(loc[t].val, ActiveEncoded(A(t), wallet[A(t)]),
                                            registry, held[t])>>),
                          {Reads("addresses", "r")}))
    /\ lk' = RUnlocked(lk, <<A(t), "acct">>, t)
    /\ held' = [held EXCEPT ![t] = <<>>]
    /\ Goto(t, "rs_flush")
    /\ UNCHANGED <<acctVars, registry>> /\ Fixed

RescanFlush(t) ==
    /\ At(t, "rs_flush")
    /\ \E ok \in BOOLEAN :
         /\ WriteDirtyToDisk(t, ok)
         /\ SetLoc(t, Flushed(loc[t], t, ok))
    /\ Goto(t, "idle")
    /\ UNCHANGED <<wallet, registry, held>> /\ Fixed

RECURSIVE SortedSeq(_)
SortedSeq(S) ==
    IF S = {} THEN <<>>
    ELSE LET m == CHOOSE x \in S : \A y \in S : x <= y
         IN  <<m>> \o SortedSeq(S \ {m})

SortedActivePaymentAddresses(t) ==
    /\ Starts(t)
    /\ CanRLock(<<A(t), "acct">>)
    /\ SetLoc(t, Ret(Accessed(WithTr(NewCall("SortedActivePaymentAddresses", [none |-> 0]),
                                     <<Acq("acct", "r", held[t])>>),
                              {Reads("addresses", "r")}),
                     "", SortedSeq(ActiveEncoded(A(t), wallet[A(t)]))))
    /\ Goto(t, "idle")
    /\ UNCHANGED <<acctVars, registry, lk, held>> /\ Fixed

ActivePaymentAddresses(t) ==
    /\ Starts(t)
    /\ CanRLock(<<A(t), "acct">>)
    /\ SetLoc(t, Ret(Accessed(WithTr(NewCall("ActivePaymentAddresses", [none |-> 0]),
                                     <<Acq("acct", "r", held[t])>>),
                              {Reads("addresses", "r")}),
                     "", ActiveEncoded(A(t), wallet[A(t)])))
    /\ Goto(t, "idle")
    /\ UNCHANGED <<acctVars, registry, lk, held>> /\ Fixed

\* ------------------------------------------------------------ registry
Lookup(t) ==
    /\ Starts(t)
    /\ \E x \in EncAddrs :
         LET r == LookupAccountByAddress(registry, x)
         IN  SetLoc(t, Ret(WithTr(NewCall("LookupAccountByAddress", [address |-> x]),
                                  <<Acq("reg", "r", held[t])>>),
                           r.err, r.account))
    /\ Goto(t, "idle")
    /\ UNCHANGED <<acctVars, registry, lk, held>> /\ Fixed

\* ------------------------------------------------------------ notifications
\* A transaction paying one of the account's tracked addresses arrives: a
\* receive record and its utxo are appended under the two ledger locks.
NextId(s) == IF s = <<>> THEN 1 ELSE 1 + s[Len(s)].txid

Receive(a) ==
    /\ Len(txs[a].s) < MaxLedger
    /\ CanLock(<<a, "utxo">>) /\ CanLock(<<a, "tx">>)
    /\ \E ad \in ActiveAddresses(a, wallet[a]), e \in dom.blocks :
         LET id == NextId(txs[a].s)
         IN  /\ txs' = [txs EXCEPT ![a] =
                          [s |-> Append(@.s, RecvRec(id, ScriptAddress(ad), 1, e.height, e.blk)),
                           dirty |-> TRUE]]
             /\ utxo' = [utxo EXCEPT ![a] =
                          [s |-> Append(@.s, Utxo(id, ScriptAddress(ad), 1, e.height, e.blk)),
                           dirty |-> TRUE]]
    /\ UNCHANGED <<wallet, dirty, registry, lk, pc, loc, held>> /\ Fixed

\* ------------------------------------------------------------ specifications
Stamp(h, err) == [height |-> h, err |-> err]
Block(h, b) == [height |-> h, blk |-> b]

\* An account as it is opened: a locked wallet with its first chained
\* address, registered; empty, clean ledgers.
OpenedWallet == [chain |-> 0, imported |-> {}, locked |-> TRUE, earliest |-> 1, synced |-> 1]
EmptyStore == [s |-> <<>>, dirty |-> FALSE]
OpenedRegistry ==
    [x \in EncAddrs |->
        IF \E a \in Accounts : x = EncodeAddress(Addr(ChainPkh(a, 0)))
        THEN Name(CHOOSE a \in Accounts : x = EncodeAddress(Addr(ChainPkh(a, 0))))
        ELSE Unmarked]

InitControl ==
    /\ lk = [l \in LockIds |-> FreeLock]
    /\ pc = [t \in Threads |-> "idle"]
    /\ loc = [t \in Threads |-> NewCall("none", [none |-> 0])]
    /\ held = [t \in Threads |-> <<>>]

InitAccounts ==
    /\ wallet = [a \in Accounts |-> OpenedWallet]
    /\ dirty = [a \in Accounts |-> FALSE]
    /\ utxo = [a \in Accounts |-> EmptyStore]
    /\ txs = [a \in Accounts |-> EmptyStore]
    /\ registry = OpenedRegistry
    /\ fullRescan = [a \in Accounts |-> FALSE]

TwoHashes == {ChainPkh("", 0), ChainPkh("", 1)}

SmallDom ==
    [active |-> Threads, sequential |-> FALSE,
     confirms |-> {1}, from |-> {0}, count |-> {1}, heights |-> {1}, hashes |-> {1, 2},
     pkhs |-> {ChainPkh("", 0)}, pkhsets |-> {{ChainPkh("", 0)}},
     wifs |-> {[key |-> 1, net |-> n, compressed |-> TRUE, valid |-> v] :
                 n \in Nets, v \in BOOLEAN},
     rescan |-> BOOLEAN, blocks |-> {Block(1, 1)}]

Calls(t) ==
    \/ LockCall(t) \/ LockBody(t) \/ UnlockCall(t) \/ UnlockBody(t)
    \/ RollbackCall(t) \/ RollbackUtxo(t) \/ RollbackTxCall(t) \/ RollbackTx(t)
    \/ CallWriteDirtyToDisk(t) \/ RollbackFlush(t)
    \/ CalculateBalance(t) \/ CalculateBalanceSum(t)
    \/ CalculateAddressBalance(t) \/ CalculateAddressBalanceSum(t)
    \/ NewAddressCall(t) \/ NewAddressBody(t) \/ NewAddressFlush(t) \/ NewAddressMark(t)
    \/ CurrentAddressLast(t) \/ CurrentAddressUsed(t) \/ CurrentAddressNewAddress(t)
    \/ ListTransactions(t) \/ ListAddressTransactions(t) \/ ListAllTransactions(t)
    \/ ListBody(t)
    \/ DumpPrivKeys(t) \/ DumpWIFPrivateKey(t)
    \/ ImportPrivKey(t) \/ ImportBody(t) \/ ImportFlush(t) \/ ImportMark(t)
    \/ ImportRescanFlush(t)
    \/ Track(t) \/ TrackSpent(t)
    \/ RescanBegin(t) \/ RescanSend(t) \/ RescanFlush(t)
    \/ SortedActivePaymentAddresses(t) \/ ActivePaymentAddresses(t)
    \/ Lookup(t)

Notified == \E a \in {acctOf[t] : t \in Threads} : Receive(a)

\* Spec: two goroutines calling every method of the default account, and
\* the notifications that arrive for it.
Init ==
    /\ InitControl
    /\ InitAccounts
    /\ acctOf = [t \in Threads |-> ""]
    /\ provider = {Stamp(1, FALSE), Stamp(BlockHeightUnknown, TRUE)}
    /\ dom = SmallDom

Next == (\E t \in Threads : Calls(t)) \/ Notified

Spec == Init /\ [][Next]_vars

\* SpecAccounts: the same, with one goroutine on each of two accounts.
InitAccountsApart ==
    /\ InitControl
    /\ InitAccounts
    /\ acctOf = [t \in Threads |-> IF t = "g1" THEN "" ELSE "savings"]
    /\ provider = {Stamp(1, FALSE), Stamp(BlockHeightUnknown, TRUE)}
    /\ dom = SmallDom

SpecAccounts == InitAccountsApart /\ [][Next]_vars

\* SpecBalance: one balance query on a drawn UtxoStore; the amount of the
\* i-th entry is 2^(i-1), so that a sum tells which entries it counts.
UtxoKinds == [height : {Unconfirmed} \cup 0..MaxHeight, hash : TwoHashes]
DrawnUtxos ==
    UNION {{[i \in 1..n |-> Utxo(i, f[i].hash, 2 ^ (i - 1), f[i].height, 1)] :
              f \in [1..n -> UtxoKinds]} : n \in 0..MaxLedger}

InitBalance ==
    /\ InitControl
    /\ wallet = [a \in Accounts |-> [OpenedWallet EXCEPT !.chain = 1]]
    /\ dirty = [a \in Accounts |-> FALSE]
    /\ \E s \in DrawnUtxos : utxo = [a \in Accounts |-> [s |-> s, dirty |-> FALSE]]
    /\ txs = [a \in Accounts |-> EmptyStore]
    /\ registry = OpenedRegistry
    /\ fullRescan = [a \in Accounts |-> FALSE]
    /\ acctOf = [t \in Threads |-> ""]
    /\ provider = {Stamp(h, FALSE) : h \in BlockHeightUnknown..MaxHeight}
                  \cup {Stamp(BlockHeightUnknown, TRUE), Stamp(MaxHeight, TRUE)}
    /\ dom = [SmallDom EXCEPT !.active = {"g1"},
                              !.confirms = 0..MaxConf, !.pkhs = TwoHashes]

NextBalance ==
    \E t \in Threads :
        \/ CalculateBalance(t) \/ CalculateBalanceSum(t)
        \/ CalculateAddressBalance(t) \/ CalculateAddressBalanceSum(t)

SpecBalance == InitBalance /\ [][NextBalance]_vars

\* SpecHistory: one history query on a drawn TxStore of receives and sends.
DrawnRecord(i, type) ==
    IF type = "recv"
    THEN RecvRec(i, IF i % 2 = 1 THEN ChainPkh("", 0) ELSE ChainPkh("", 1), 1, 1, 1)
    ELSE SendRec(i, 2, 1, 1)
DrawnTxs ==
    UNION {{[i \in 1..n |-> DrawnRecord(i, f[i])] : f \in [1..n -> {"recv", "send"}]} :
             n \in 0..MaxHist}

InitHistory ==
    /\ InitControl
    /\ wallet = [a \in Accounts |-> [OpenedWallet EXCEPT !.chain = 1]]
    /\ dirty = [a \in Accounts |-> FALSE]
    /\ utxo = [a \in Accounts |-> EmptyStore]
    /\ \E s \in DrawnTxs : txs = [a \in Accounts |-> [s |-> s, dirty |-> FALSE]]
    /\ registry = OpenedRegistry
    /\ fullRescan = [a \in Accounts |-> FALSE]
    /\ acctOf = [t \in Threads |-> ""]
    /\ provider = {Stamp(MaxHeight, FALSE), Stamp(BlockHeightUnknown, FALSE),
                   Stamp(BlockHeightUnknown, TRUE)}
    /\ dom = [SmallDom EXCEPT !.active = {"g1"},
                              !.from = 0..2, !.count = 0..MaxHist,
                              !.pkhsets = SUBSET TwoHashes]

NextHistory ==
    \E t \in Threads :
        \/ ListTransactions(t) \/ ListAddressTransactions(t) \/ ListAllTransactions(t)
        \/ ListBody(t)

SpecHistory == InitHistory /\ [][NextHistory]_vars

\* SpecRollback: two calls of Rollback, one after the other, on drawn
\* ledgers that hold a utxo for every receive record.
BlockKinds ==
    {Block(Unconfirmed, 0)} \cup {Block(h, b) : h \in 0..MaxHeight, b \in {1, 2}}
DrawnBlocks == UNION {[1..n -> BlockKinds] : n \in 0..MaxLedger}

InitRollback ==
    /\ InitControl
    /\ wallet = [a \in Accounts |-> OpenedWallet]
    /\ dirty = [a \in Accounts |-> FALSE]
    /\ \E f \in DrawnBlocks, d \in BOOLEAN :
         /\ utxo = [a \in Accounts |->
                      [s |-> [i \in 1..Len(f) |->
                                Utxo(i, ChainPkh("", 0), 1, f[i].height, f[i].blk)],
                       dirty |-> d]]
         /\ txs = [a \in Accounts |->
                      [s |-> [i \in 1..Len(f) |->
                                RecvRec(i, ChainPkh("", 0), 1, f[i].height, f[i].blk)],
                       dirty |-> d]]
    /\ registry = OpenedRegistry
    /\ fullRescan = [a \in Accounts |-> FALSE]
    /\ acctOf = [t \in Threads |-> ""]
    /\ provider = {Stamp(MaxHeight, FALSE)}
    /\ dom = [SmallDom EXCEPT !.sequential = TRUE,
                              !.heights = 0..MaxHeight, !.hashes = {1, 2}]

NextRollback ==
    \E t \in Threads :
        \/ RollbackCall(t) \/ RollbackUtxo(t) \/ RollbackTxCall(t) \/ RollbackTx(t)
        \/ CallWriteDirtyToDisk(t) \/ RollbackFlush(t)

SpecRollback == InitRollback /\ [][NextRollback]_vars

\* SpecRescan: RescanActiveAddresses on accounts opened with either value
\* of fullRescan and with drawn creation and synced heights, next to the
\* calls that add addresses to the wallet.
InitRescan ==
    /\ InitControl
    /\ \E e \in 0..1, s \in {0, MaxHeight} :
         wallet = [a \in Accounts |-> [OpenedWallet EXCEPT !.earliest = e, !.synced = s]]
    /\ dirty = [a \in Accounts |-> FALSE]
    /\ utxo = [a \in Accounts |-> EmptyStore]
    /\ txs = [a \in Accounts |-> EmptyStore]
    /\ registry = OpenedRegistry
    /\ \E f \in BOOLEAN : fullRescan = [a \in Accounts |-> f]
    /\ acctOf = [t \in Threads |-> ""]
    /\ provider = {Stamp(MaxHeight, FALSE)}
    /\ dom = SmallDom

NextRescan ==
    \E t \in Threads :
        \/ RescanBegin(t) \/ RescanSend(t) \/ CallWriteDirtyToDisk(t) \/ RescanFlush(t)
        \/ NewAddressCall(t) \/ NewAddressBody(t) \/ NewAddressFlush(t) \/ NewAddressMark(t)
        \/ ImportPrivKey(t) \/ ImportBody(t) \/ ImportFlush(t) \/ ImportMark(t)
        \/ ImportRescanFlush(t)

SpecRescan == InitRescan /\ [][NextRescan]_vars

\* ------------------------------------------------------------ claims
EntryPasses(u, H, c) ==
    IF c = 0 THEN TRUE ELSE u.height # Unconfirmed /\ H - u.height + 1 >= c

RECURSIVE SumOfAmounts(_, _)
SumOfAmounts(s, I) ==
    IF I = {} THEN 0
    ELSE LET i == CHOOSE i \in I : TRUE IN s[i].amt + SumOfAmounts(s, I \ {i})

BalanceCalls == {"CalculateBalance", "CalculateAddressBalance"}

\* C1: with a valid best-block height H, CalculateBalance(c) returns the sum
\* of the amounts of exactly the entries that pass the filter (every entry
\* when c = 0; otherwise those with height # -1 and H - height + 1 >= c), and
\* CalculateAddressBalance the same restricted to the address's hash.
C1_BalanceIsFilteredSum ==
    \A t \in Threads :
        (Returned(t) /\ loc[t].op \in BalanceCalls /\ ~loc[t].bs.err
           /\ loc[t].bs.height # BlockHeightUnknown)
        => LET s == utxo[A(t)].s
               H == loc[t].bs.height
               c == loc[t].args.confirms
               I == {i \in DOMAIN s :
                       /\ EntryPasses(s[i], H, c)
                       /\ loc[t].op = "CalculateAddressBalance"
                            => s[i].hash = loc[t].args.addr.hash}
           IN  /\ loc[t].val.sat = SumOfAmounts(s, I)
               /\ loc[t].val.per = SatoshiPerBitcoin
               /\ loc[t].err = ""

\* C1 witness: a balance with 1 confirmation over a ledger holding an entry
\* of the best block and an unconfirmed one counts the first alone, and with
\* 2 confirmations it does not count the entry of the best block.
C1_Witness ==
    \E t \in Threads :
        /\ Returned(t) /\ loc[t].op = "CalculateBalance"
        /\ Len(utxo[A(t)].s) = 2
        /\ utxo[A(t)].s[1].height = Unconfirmed
        /\ utxo[A(t)].s[2].height = loc[t].bs.height
        /\ ~loc[t].bs.err /\ loc[t].bs.height # BlockHeightUnknown
        /\ loc[t].args.confirms = 1
        /\ loc[t].val.sat = utxo[A(t)].s[2].amt

\* C2: when the provider answers with an error or the unknown height, both
\* balance queries return 0 for every confirmations value and never take
\* the UtxoStore lock.
C2_NoBlockGivesZero ==
    \A t \in Threads :
        (Returned(t) /\ loc[t].op \in BalanceCalls
           /\ (loc[t].bs.err \/ loc[t].bs.height = BlockHeightUnknown))
        => /\ loc[t].val = [sat |-> 0, per |-> SatoshiPerBitcoin]
           /\ loc[t].tr = <<>>
           /\ utxo[A(t)].dirty = FALSE

\* C2 witness: a query with 0 confirmations on a ledger that holds funds
\* returned 0 because the height was unknown though no error was reported.
C2_Witness ==
    \E t \in Threads :
        /\ Returned(t) /\ loc[t].op = "CalculateBalance"
        /\ loc[t].bs = [height |-> BlockHeightUnknown, err |-> FALSE]
        /\ loc[t].args.confirms = 0
        /\ Len(utxo[A(t)].s) > 0
        /\ loc[t].val.sat = 0

\* The records ListRecent(from, count) is specified to use: positions from,
\* from+1, ..., from+count-1 counted from the most recent record.
RECURSIVE RowsFromEnd(_, _, _, _, _, _)
RowsFromEnd(s, k, last, name, H, net) ==
    IF k > last \/ k > Len(s) - 1 THEN <<>>
    ELSE TxInfo(s[Len(s) - k], name, H, net) \o RowsFromEnd(s, k + 1, last, name, H, net)

\* C3: ListTransactions(from, count) builds its rows from exactly the records
\* at positions from .. from+count-1 counted from the most recently appended
\* record, most recent first.
C3_ListUsesRecordsFromEnd ==
    \A t \in Threads :
        (Returned(t) /\ loc[t].op = "ListTransactions" /\ loc[t].err = "")
        => loc[t].val = RowsFromEnd(txs[A(t)].s, loc[t].args.from,
                                    loc[t].args.from + loc[t].args.count - 1,
                                    Name(A(t)), loc[t].bs.height, Net(A(t)))

HasRecvFor(s, h) == \E i \in DOMAIN s : s[i].type = "recv" /\ s[i].hash = h

\* C4: AddressUsed(A) is true exactly when the TxStore holds a receive record
\* for A's hash, so it is false for an address from its issuance until such
\* a record is appended (none exists for an address not issued yet); a
\* successful CurrentAddress() that found its last address A used returns a
\* newly issued address different from A, and one that found A unused
\* returns A, having issued nothing.
C4_CurrentAddressAdvancesWhenUsed ==
    /\ \A a \in Accounts, h \in Pkhs :
         AddressUsed(txs[a].s, Addr(h)) <=> HasRecvFor(txs[a].s, h)
    /\ \A t \in Threads :
         (Returned(t) /\ loc[t].op = "CurrentAddress" /\ loc[t].err = "")
         => IF loc[t].used
            THEN /\ loc[t].val # loc[t].last
                 /\ loc[t].val = loc[t].addr
                 /\ loc[t].val \in ActiveAddresses(A(t), wallet[A(t)])
            ELSE /\ loc[t].val = loc[t].last
                 /\ loc[t].addr = NoAddr
                 /\ \A i \in DOMAIN loc[t].tr : loc[t].tr[i].ev = "acquire"

\* C4 witness: NewAddress returned A, a receive record for A is in the
\* ledger, and a later CurrentAddress that read A returned another address.
C4_Witness ==
    \E t \in Threads, u \in Threads :
        /\ Returned(u) /\ loc[u].op = "NewAddress" /\ loc[u].err = ""
        /\ Returned(t) /\ loc[t].op = "CurrentAddress" /\ loc[t].err = ""
        /\ loc[t].last = loc[u].val
        /\ loc[t].used
        /\ HasRecvFor(txs[A(t)].s, loc[u].val.hash)
        /\ loc[t].val # loc[u].val

ImportOfWrongNetwork(l, a) ==
    /\ l.op = "ImportPrivKey"
    /\ l.args.wif.valid
    /\ l.args.wif.net # Net(a)

\* C5: the step in which a private key of another network is imported ends
\* the call with the "wrong network" error and changes no wallet, dirty flag,
\* ledger, registry entry or lock, and has sent no flush or rescan request.
C5_WrongNetworkChangesNothing ==
    [][\A t \in Threads :
          (loc[t].op = "none" /\ ImportOfWrongNetwork(loc'[t], A(t)))
          => /\ pc'[t] = "idle"
             /\ loc'[t].err = "wrong network"
             /\ loc'[t].tr = <<>>
             /\ UNCHANGED <<wallet, dirty, utxo, txs, registry, lk, held>>]_vars

\* C5 witness: an import of a well-formed key of the test network returned.
C5_Witness ==
    \E t \in Threads :
        /\ Returned(t)
        /\ ImportOfWrongNetwork(loc[t], A(t))
        /\ loc[t].err = "wrong network"

Succeeded(t, ops) == Returned(t) /\ loc[t].op \in ops /\ loc[t].err = ""

\* C6: once NewAddress() or the private-key import has returned successfully
\* for address A on account X, LookupAccountByAddress(A) succeeds and yields
\* X's name in every later state; an address never marked is not found.
C6_IssuedAddressLooksUpToItsAccount ==
    /\ \A t \in Threads :
         Succeeded(t, {"NewAddress", "ImportPrivKey"})
         => LookupAccountByAddress(registry, EncodeAddress(loc[t].addr))
              = [account |-> Name(A(t)), err |-> ""]
    /\ \A x \in EncAddrs :
         registry[x] = Unmarked => LookupAccountByAddress(registry, x).err = "not found"

HasEvent(l, ev) == \E i \in DOMAIN l.tr : l.tr[i].ev = ev
FlushFailedFirst(l) ==
    \E i \in DOMAIN l.tr :
        /\ l.tr[i].ev = "flush" /\ ~l.tr[i].ok
        /\ \A j \in 1..(i - 1) : l.tr[j].ev # "flush"

\* C7: a call of NewAddress, of the private-key import or of Rollback whose
\* flush failed after its in-memory mutation still returns success, with
\* its registry entry made and its notification request sent.
C7_FlushFailureNeverFailsTheCall ==
    \A t \in Threads :
        (/\ Returned(t)
         /\ loc[t].op \in {"NewAddress", "ImportPrivKey", "Rollback"}
         /\ FlushFailedFirst(loc[t]))
        => /\ loc[t].err = ""
           /\ loc[t].op \in {"NewAddress", "ImportPrivKey"} => HasEvent(loc[t], "mark")
           /\ loc[t].op = "NewAddress" => HasEvent(loc[t], "notifynewtxs")

\* C8: every transaction-notification request and every rescan request
\* sent to btcd names only addresses that have a registry entry when the
\* request is sent.
C8_RegisteredBeforeTracked ==
    \A t \in Threads : \A i \in DOMAIN loc[t].tr :
        loc[t].tr[i].ev \in {"notifynewtxs", "rescan"}
        => loc[t].tr[i].unregistered = {}

RolledOf(l, store) ==
    LET i == CHOOSE i \in DOMAIN l.tr : l.tr[i].ev = "rolled" /\ l.tr[i].store = store
    IN  l.tr[i]
RolledBack(t) == Returned(t) /\ loc[t].op = "Rollback"
RolledRightAfter(u, t) ==
    /\ RolledBack(t) /\ RolledBack(u) /\ u # t
    /\ loc[u].args = loc[t].args
    /\ \A store \in {"utxo", "tx"} :
         RolledOf(loc[u], store).before.s = RolledOf(loc[t], store).after.s

\* C9: a second Rollback with the arguments of the first, on the ledgers the
\* first left, changes neither the UtxoStore nor the TxStore and does not
\* newly set a ledger's dirty flag; a Rollback of empty ledgers changes
\* nothing.
C9_RollbackTwiceIsRollbackOnce ==
    /\ \A t \in Threads, u \in Threads :
         RolledRightAfter(u, t)
         => \A store \in {"utxo", "tx"} :
              /\ RolledOf(loc[u], store).after.s = RolledOf(loc[u], store).before.s
              /\ RolledOf(loc[u], store).after.dirty
                 => RolledOf(loc[u], store).before.dirty
    /\ \A t \in Threads :
         RolledBack(t)
         => \A store \in {"utxo", "tx"} :
              RolledOf(loc[t], store).before.s = <<>>
              => RolledOf(loc[t], store).after = RolledOf(loc[t], store).before

Rank(kind) == CASE kind = "acct" -> 1 [] kind = "utxo" -> 2 [] kind = "tx" -> 3

\* C10: whenever a goroutine acquires the account mutex, the UtxoStore lock
\* or the TxStore lock, every other of these locks it holds comes earlier in
\* the order account, UtxoStore, TxStore.
C10_LocksTakenInOrder ==
    \A t \in Threads : \A i \in DOMAIN loc[t].tr :
        (loc[t].tr[i].ev = "acquire" /\ loc[t].tr[i].lock \in LockKinds)
        => \A j \in DOMAIN loc[t].tr[i].held :
             Rank(loc[t].tr[i].held[j]) <= Rank(loc[t].tr[i].lock)

\* C10 witness: a history query took the TxStore lock holding the account
\* mutex.
C10_Witness ==
    \E t \in Threads : \E i \in DOMAIN loc[t].tr :
        /\ loc[t].tr[i].ev = "acquire"
        /\ loc[t].tr[i].lock = "tx"
        /\ loc[t].tr[i].held = <<"acct">>

ExternalIO == {"flush", "notifynewtxs", "notifyspent", "rescan"}

\* C11: every disk flush and every request to btcd (NotifyNewTXs,
\* NotifySpent, Rescan) is issued by a goroutine that holds neither the
\* account mutex nor a ledger lock.
C11_NoIOUnderLock ==
    \A t \in Threads : \A i \in DOMAIN loc[t].tr :
        loc[t].tr[i].ev \in ExternalIO => loc[t].tr[i].held = <<>>

HistoryQueries == {"ListTransactions", "ListAddressTransactions", "ListAllTransactions"}

\* C12: a history query whose GetCurBlock gave an error or the unknown
\* height returns a failure and no rows.
C12_HistoryFailsWithoutBlock ==
    \A t \in Threads :
        (Returned(t) /\ loc[t].op \in HistoryQueries /\ NoBlock(loc[t].bs))
        => loc[t].err # "" /\ loc[t].val = <<>>

RegistryWriteLocks(l) ==
    {i \in DOMAIN l.tr : l.tr[i].ev = "acquire" /\ l.tr[i].lock = "reg" /\ l.tr[i].mode = "w"}

\* C13: a goroutine that acquires the lock of addressAccountMap for writing
\* holds neither the account mutex nor a ledger lock, on every path of
\* NewAddress and of the private-key import.
C13_RegistryLockedWithNoAccountLock ==
    \A t \in Threads : \A i \in RegistryWriteLocks(loc[t]) :
        \A j \in DOMAIN loc[t].tr[i].held : loc[t].tr[i].held[j] \notin LockKinds

\* C13 witness: NewAddress and an import have both written the registry.
C13_Witness ==
    \E t \in Threads, u \in Threads :
        /\ loc[t].op = "NewAddress" /\ RegistryWriteLocks(loc[t]) # {}
        /\ loc[u].op = "ImportPrivKey" /\ RegistryWriteLocks(loc[u]) # {}

EventCount(l, ev) == Cardinality({i \in DOMAIN l.tr : l.tr[i].ev = ev})
LockStateCount(l, locked) ==
    Cardinality({i \in DOMAIN l.tr : l.tr[i].ev = "lockstate" /\ l.tr[i].locked = locked})

\* C14: Unlock returns success exactly when the wallet accepted the
\* passphrase, sends one unlocked notification exactly when it returns
\* success and none otherwise, and calls the wallet's Unlock once; Lock sends
\* one locked notification exactly when the wallet's Lock succeeded.
C14_UnlockOnceAndNotifyOnSuccess ==
    \A t \in Threads :
        /\ (Returned(t) /\ loc[t].op = "Unlock")
           => /\ loc[t].err = "" <=> loc[t].args.passphrase
              /\ LockStateCount(loc[t], FALSE) = (IF loc[t].err = "" THEN 1 ELSE 0)
              /\ LockStateCount(loc[t], TRUE) = 0
              /\ EventCount(loc[t], "wallet.Unlock") = 1
        /\ (Returned(t) /\ loc[t].op = "Lock")
           => /\ LockStateCount(loc[t], TRUE) = (IF loc[t].err = "" THEN 1 ELSE 0)
              /\ LockStateCount(loc[t], FALSE) = 0
              /\ EventCount(loc[t], "wallet.Lock") = 1

IssuedByCurrentAddress(t) == loc[t].op = "CurrentAddress" /\ loc[t].addr # NoAddr

\* C15: CurrentAddress issues a new address only when the address that is
\* the last issued one at the moment of issuance is the used address it
\* saw, so two concurrent calls that saw the same used address issue at most
\* one new address between them.
C15_CurrentAddressIssuesOncePerUsedAddress ==
    /\ \A t \in Threads :
         IssuedByCurrentAddress(t)
         => /\ loc[t].used
            /\ loc[t].addr = Addr(ScriptAddress(loc[t].last) + 1)
    /\ \A t \in Threads, u \in Threads :
         (/\ t # u /\ A(t) = A(u)
          /\ loc[t].op = "CurrentAddress" /\ loc[u].op = "CurrentAddress"
          /\ loc[t].used /\ loc[u].used
          /\ loc[t].last = loc[u].last)
         => ~(IssuedByCurrentAddress(t) /\ IssuedByCurrentAddress(u))

RolledEvents(l) == {i \in DOMAIN l.tr : l.tr[i].ev = "rolled"}
Mutated(e) == e.after.s # e.before.s

\* Rollback takes the UtxoStore and then the TxStore, each under its own
\* write lock with no other lock held and before the flush that ends it.
UtxoThenTxEachLocked(l) ==
    /\ \A i \in RolledEvents(l) :
         /\ i > 1
         /\ l.tr[i - 1] = Acq(l.tr[i].store, "w", <<>>)
         /\ \A j \in 1..i : l.tr[j].ev # "flush"
    /\ \A i \in RolledEvents(l), j \in RolledEvents(l) :
         i < j => l.tr[i].store = "utxo" /\ l.tr[j].store = "tx"

\* The flag a ledger's rollback leaves when it releases the ledger's lock.
OldOrMutated(e) == e.before.dirty \/ Mutated(e)

\* The step in which a Rollback returns: its writeDirtyToDisk has run.
RollbackReturns(t) == pc[t] = "rb_flush" /\ pc'[t] = "idle"
FlushedOk(l) == \E i \in DOMAIN l.tr : l.tr[i].ev = "flush" /\ l.tr[i].ok

\* C16 as stated: Rollback updates the UtxoStore before the TxStore, each
\* under its own write lock, and for each ledger the dirty flag after the
\* call is (the flag before) or (the ledger's rollback changed it): Rollback
\* never clears a flag.
C16_DirtyAfterTheCallIsOldOrMutated ==
    /\ [](\A t \in Threads : loc[t].op = "Rollback" => UtxoThenTxEachLocked(loc[t]))
    /\ [][\A t \in Threads :
            RollbackReturns(t)
            => /\ utxo'[A(t)].dirty = OldOrMutated(RolledOf(loc[t], "utxo"))
               /\ txs'[A(t)].dirty = OldOrMutated(RolledOf(loc[t], "tx"))]_vars

\* C16 amended: Rollback updates the UtxoStore before the TxStore, each
\* under its own write lock, and when it releases a ledger's lock the
\* ledger's dirty flag is (the flag before) or (the ledger was changed).
\* The writeDirtyToDisk that ends Rollback then clears both flags when it
\* succeeds and leaves them when it fails, so with no other call in between
\* a flag is set after the call exactly when it was set before or the
\* ledger was changed, and the flush failed.
C16_RollbackDirtyIsOldOrMutatedUntilFlushed ==
    /\ [](\A t \in Threads :
            loc[t].op = "Rollback"
            => /\ UtxoThenTxEachLocked(loc[t])
               /\ \A i \in RolledEvents(loc[t]) :
                    loc[t].tr[i].after.dirty = OldOrMutated(loc[t].tr[i]))
    /\ [][\A t \in Threads :
            RollbackReturns(t)
            => /\ utxo'[A(t)].dirty =
                    (OldOrMutated(RolledOf(loc[t], "utxo")) /\ ~FlushedOk(loc'[t]))
               /\ txs'[A(t)].dirty =
                    (OldOrMutated(RolledOf(loc[t], "tx")) /\ ~FlushedOk(loc'[t]))]_vars

\* C16 witness: a Rollback that changed a clean UtxoStore has returned after
\* a failed flush, and one that left a dirty TxStore as it was has returned
\* after a successful flush, the TxStore flag now being clear.
C16_Witness ==
    \E t \in Threads :
        /\ RolledBack(t) /\ ~FlushedOk(loc[t])
        /\ ~RolledOf(loc[t], "utxo").before.dirty /\ Mutated(RolledOf(loc[t], "utxo"))
        /\ \E u \in Threads :
             /\ RolledBack(u) /\ FlushedOk(loc[u])
             /\ RolledOf(loc[u], "tx").before.dirty /\ ~Mutated(RolledOf(loc[u], "tx"))
             /\ ~txs[A(u)].dirty

RescanEvents(l) == {i \in DOMAIN l.tr : l.tr[i].ev = "rescan"}

\* C17: an import sends a rescan request only when one was asked for, at
\* most once, from height 0 and for the imported address alone, after the key
\* is in the wallet and the address marked in the registry; a successful
\* import with rescan has sent one and flushed after it, one without rescan
\* and a failed one have sent none.
C17_ImportRescansFromGenesis ==
    \A t \in Threads :
        loc[t].op = "ImportPrivKey"
        => /\ \A i \in RescanEvents(loc[t]) :
                /\ loc[t].args.rescan
                /\ loc[t].tr[i].from = 0
                /\ loc[t].tr[i].addrs = {EncodeAddress(loc[t].addr)}
                /\ loc[t].tr[i].unregistered = {}
                /\ loc[t].addr \in ActiveAddresses(A(t), wallet[A(t)])
                /\ \E j \in 1..(i - 1) :
                     loc[t].tr[j] = MarkEv(EncodeAddress(loc[t].addr), Name(A(t)), <<>>)
           /\ Cardinality(RescanEvents(loc[t])) <= 1
           /\ (Returned(t) /\ loc[t].err = "" /\ loc[t].args.rescan)
              => /\ Cardinality(RescanEvents(loc[t])) = 1
                 /\ loc[t].tr[Len(loc[t].tr)].ev = "flush"
                 /\ \A i \in RescanEvents(loc[t]) : i < Len(loc[t].tr)
           /\ (Returned(t) /\ (loc[t].err # "" \/ ~loc[t].args.rescan))
              => RescanEvents(loc[t]) = {}

\* C17 witness: an import with rescan has returned successfully.
C17_Witness ==
    \E t \in Threads :
        /\ Returned(t) /\ loc[t].op = "ImportPrivKey"
        /\ loc[t].err = "" /\ loc[t].args.rescan
        /\ RescanEvents(loc[t]) # {}

Contents == <<utxo[""].s, utxo["savings"].s, txs[""].s, txs["savings"].s>>

\* C18: the step of RescanActiveAddresses that reads the active addresses
\* sends one rescan request for exactly the payment addresses active at that
\* moment, from the wallet's earliest block height when fullRescan is set and
\* from one past the synced height otherwise; no step of the call changes a
\* ledger's contents, the wallet or fullRescan, and the call that has
\* returned has sent exactly one request.
C18_RescanFromBeginBlockForActiveAddresses ==
    /\ [][\A t \in Threads :
            (loc'[t].op = "RescanActiveAddresses" /\ pc'[t] # pc[t])
            => /\ UNCHANGED <<wallet, fullRescan, Contents>>
               /\ pc[t] = "rs_r2"
                  => /\ loc'[t].tr[Len(loc'[t].tr)].ev = "rescan"
                     /\ loc'[t].tr[Len(loc'[t].tr)].addrs
                          = {EncodeAddress(ad) : ad \in ActiveAddresses(A(t), wallet[A(t)])}
                     /\ loc'[t].tr[Len(loc'[t].tr)].from
                          = (IF fullRescan[A(t)] THEN wallet[A(t)].earliest
                             ELSE wallet[A(t)].synced + 1)]_vars
    /\ [](\A t \in Threads :
            loc[t].op = "RescanActiveAddresses"
            => /\ Cardinality(RescanEvents(loc[t])) <= 1
               /\ Returned(t) => Cardinality(RescanEvents(loc[t])) = 1)

\* C18 witness: an incremental rescan has returned whose request named an
\* address issued while the call was under way.
C18_Witness ==
    \E t \in Threads :
        /\ Returned(t) /\ loc[t].op = "RescanActiveAddresses"
        /\ ~fullRescan[A(t)]
        /\ \E i \in RescanEvents(loc[t]) :
             /\ loc[t].tr[i].from = wallet[A(t)].synced + 1
             /\ Cardinality(loc[t].tr[i].addrs) >= 2

InProgress(t) == pc[t] # "idle"
HoldsNothing(t) ==
    /\ held[t] = <<>>
    /\ \A l \in LockIds : lk[l].r[t] = 0 /\ lk[l].w # t /\ t \notin lk[l].p

\* C19: no interleaving deadlocks: while calls are under way, one of them
\* can take its next step, and a call that has returned holds no lock and
\* waits for none.
C19_NoDeadlock ==
    /\ (\E t \in Threads : InProgress(t))
       => \E t \in Threads : InProgress(t) /\ ENABLED Calls(t)
    /\ \A t \in Threads : ~InProgress(t) => HoldsNothing(t)

\* C20: every read of the wallet is made with a.mtx held at least for
\* reading, and every write to the wallet or to a.dirty with a.mtx held for
\* writing.
C20_WalletAccessedUnderMutex ==
    \A t \in Threads : \A x \in loc[t].acc :
        /\ x.access = "read" => x.mtx \in {"r", "w"}
        /\ x.access = "write" => x.mtx = "w"
====
